---- MODULE Spec2Model ----
(***************************************************************************)
(* Model of the video-review analysis service: the in-memory job state     *)
(* store (lib/analysis-state.ts), the analyze and analysis-status routes,  *)
(* the Gemini response validation / merge / scoring pipeline of            *)
(* lib/vertex-ai/analyze.ts and the file-backed result store.              *)
(*                                                                         *)
(* Representation of JavaScript values: a value is a record tagged by its  *)
(* typeof (field t).  A string is the sequence of the text pieces it was   *)
(* concatenated from (the empty string is <<>>).  A number is an integer v *)
(* plus a flag int; int = FALSE stands for the non-integer v + 0.5.        *)
(* An analysis id is the sequence of its '_'-separated segments.           *)
(***************************************************************************)
EXTENDS Integers, Sequences, FiniteSets, TLC

\* ------------------------------------------------------------------ bounds
MaxTasks == 2
MaxPollers == 1
StartTime == 1800000
TimeStep == 3600000
MaxNow == 5400000
MaxRequested == 2
MaxReturned == 2
MaxStreams == 2
TotalBytes == 2
MaxEvents == 3

\* ------------------------------------------------------- JavaScript values
Undef == [t |-> "undefined"]
Null == [t |-> "null"]
Num(n) == [t |-> "number", v |-> n, int |-> TRUE]
Half(n) == [t |-> "number", v |-> n, int |-> FALSE]
Str(parts) == [t |-> "string", v |-> parts]
S(s) == Str(<<s>>)
EmptyStr == Str(<<>>)
Arr(seq) == [t |-> "array", v |-> seq]

IsString(x) == x.t = "string"
IsNumber(x) == x.t = "number"
IsArray(x) == x.t = "array"
IsInteger(x) == x.t = "number" /\ x.int

\* JavaScript truthiness (the ! operator and the && guards of the routes)
Truthy(x) ==
    CASE x.t = "undefined" -> FALSE
      [] x.t = "null" -> FALSE
      [] x.t = "string" -> x.v # <<>>
      [] x.t = "number" -> ~(x.int /\ x.v = 0)
      [] OTHER -> TRUE

\* x < n and x > n for a number x and an integer n
NumLess(x, n) == x.v < n
NumGreater(x, n) == IF x.int THEN x.v > n ELSE x.v >= n

\* text of a number inside a template string
NumText(x) == IF x.int THEN <<ToString(x.v)>> ELSE <<ToString(x.v), ".5">>
ValueText(x) ==
    CASE x.t = "number" -> NumText(x)
      [] x.t = "string" -> x.v
      [] OTHER -> <<x.t>>

\* ------------------------------------------------- analyzeVideo, pure part
defaultCategories ==
    << "product_relevance", "visual_quality", "audio_quality",
       "content_engagement", "talking_head_presence", "product_visibility",
       "use_case_demonstration", "unboxing_or_first_impressions",
       "brand_mention", "product_mention", "call_to_action" >>

\* adminSettings is Undef or [t |-> "object", productPageUrl, productDescription,
\* selectedCategories (a sequence of names)]
categoriesToAnalyze(adminSettings) ==
    IF adminSettings.t = "object" /\ Len(adminSettings.selectedCategories) > 0
    THEN adminSettings.selectedCategories
    ELSE defaultCategories

Thrown(msg) == [ok |-> FALSE, msg |-> msg]
Value(val) == [ok |-> TRUE, val |-> val]

\* The response text is a sequence of segments: [seg |-> "prose"] (text without
\* braces), [seg |-> "close"] (a stray closing brace) and
\* [seg |-> "object", data |-> d] (the text of one JSON object).
\* responseText.match(/\{[\s\S]*\}/): greedy, from the first '{' to the last '}'.
BraceOpen(text) == {i \in 1..Len(text) : text[i].seg = "object"}
BraceClose(text) == {i \in 1..Len(text) : text[i].seg \in {"object", "close"}}
MinOf(set) == CHOOSE i \in set : \A j \in set : i <= j
MaxOf(set) == CHOOSE i \in set : \A j \in set : i >= j

\* lines 976-980: the match and JSON.parse of it
ExtractJson(text) ==
    IF BraceOpen(text) = {}
    THEN Thrown(<<"No JSON object found in Gemini's response.">>)
    ELSE IF MinOf(BraceOpen(text)) = MaxOf(BraceClose(text))
         THEN Value(text[MinOf(BraceOpen(text))].data)
         ELSE Thrown(<<"Unexpected token in JSON">>)

\* line 985: typeof !== 'number' || !Number.isInteger || < 0
BadDuration(d) == ~IsNumber(d) \/ ~IsInteger(d) \/ NumLess(d, 0)

\* lines 994-996, for one entry of the returned categories array
CategoryError(cat) ==
    IF cat.t # "object"
    THEN <<"Cannot read properties of ", cat.t>>
    ELSE IF ~Truthy(cat.name) \/ ~IsString(cat.name)
    THEN <<"Invalid category entry: missing name.">>
    ELSE IF ~IsNumber(cat.score) \/ ~IsInteger(cat.score)
            \/ NumLess(cat.score, 1) \/ NumGreater(cat.score, 10)
    THEN <<"Invalid category score for ">> \o cat.name.v \o <<": ">>
            \o ValueText(cat.score) \o <<". Must be integer 1-10.">>
    ELSE IF ~Truthy(cat.feedback) \/ ~IsString(cat.feedback)
    THEN <<"Invalid category feedback for ">> \o cat.name.v \o <<".">>
    ELSE <<>>

BadCategories(cats) == {i \in 1..Len(cats) : CategoryError(cats[i]) # <<>>}

\* (variant: the summary is not checked, it is defaulted later)
ValidateData_SummaryOptional(data) ==
    IF ~IsArray(data.recommendations)
    THEN Thrown(<<"Missing or invalid 'recommendations' array in JSON.">>)
    ELSE IF ~IsArray(data.categories)
    THEN Thrown(<<"Missing or invalid 'categories' array in JSON.">>)
    ELSE IF BadCategories(data.categories.v) # {}
    THEN Thrown(CategoryError(data.categories.v[MinOf(BadCategories(data.categories.v))]))
    ELSE Value([data EXCEPT !.videoDurationSeconds =
                   IF BadDuration(@) THEN Num(-1) ELSE @])

\* lines 983-1001: field validation of the parsed object
ValidateData(data) ==
    IF ~Truthy(data.summary) \/ ~IsString(data.summary)
    THEN Thrown(<<"Missing or invalid 'summary' in JSON.">>)
    ELSE IF ~IsArray(data.recommendations)
    THEN Thrown(<<"Missing or invalid 'recommendations' array in JSON.">>)
    ELSE IF ~IsArray(data.categories)
    THEN Thrown(<<"Missing or invalid 'categories' array in JSON.">>)
    ELSE IF BadCategories(data.categories.v) # {}
    THEN Thrown(CategoryError(data.categories.v[MinOf(BadCategories(data.categories.v))]))
    ELSE Value([data EXCEPT !.videoDurationSeconds =
                   IF BadDuration(@) THEN Num(-1) ELSE @])

\* lines 975-1007: the try block and its catch, which rewraps the message
ParseAndValidate(text) ==
    LET parsed == ExtractJson(text)
        checked == IF parsed.ok THEN ValidateData(parsed.val) ELSE parsed
    IN  IF checked.ok THEN checked
        ELSE Thrown(<<"Failed to process Gemini response: ">> \o checked.msg)

\* lines 1013-1023: the entries that returnedCategoryMap.set is called with
Mappable(cat) ==
    cat.t = "object" /\ Truthy(cat.name) /\ IsNumber(cat.score) /\ Truthy(cat.feedback)

\* returnedCategoryMap.get(name): the last mappable entry of that name wins
ReturnedFor(cats, name) ==
    LET hits == {i \in 1..Len(cats) : Mappable(cats[i]) /\ cats[i].name = S(name)}
    IN  IF hits = {} THEN Undef ELSE cats[MaxOf(hits)]

\* (variant: a category the model left out gets the score 0)
MergeOne_ZeroForMissing(cats, requestedName) ==
    LET returnedData == ReturnedFor(cats, requestedName)
    IN  IF returnedData.t = "object"
        THEN [name |-> requestedName, score |-> returnedData.score,
              feedback |-> returnedData.feedback]
        ELSE [name |-> requestedName, score |-> Num(0),
              feedback |-> S("Analysis for this category was not provided.")]

\* lines 1026-1047: one entry of finalCategories
MergeOne(cats, requestedName) ==
    LET returnedData == ReturnedFor(cats, requestedName)
        isValidScore == returnedData.t = "object" /\ IsInteger(returnedData.score)
                          /\ returnedData.score.v >= 1 /\ returnedData.score.v <= 10
    IN  IF isValidScore
        THEN [name |-> requestedName, score |-> returnedData.score,
              feedback |-> returnedData.feedback]
        ELSE [name |-> requestedName, score |-> Null,
              feedback |-> IF returnedData.t = "object"
                           THEN Str(<<"Invalid score (">> \o ValueText(returnedData.score)
                                    \o <<") received for this category.">>)
                           ELSE S("Analysis for this category was not provided.")]

\* (variant: the list is built from the returned entries that were requested)
finalCategories_FromReturned(requested, cats) ==
    LET kept == SelectSeq(cats, LAMBDA c :
                    Mappable(c) /\ \E i \in 1..Len(requested) : c.name = S(requested[i]))
    IN  [i \in 1..Len(kept) |-> MergeOne(cats, kept[i].name.v[1])]

finalCategories(requested, cats) ==
    [i \in 1..Len(requested) |-> MergeOne(cats, requested[i])]

RECURSIVE SumScores(_)
SumScores(seq) ==
    IF seq = <<>> THEN 0 ELSE Head(seq).score.v + SumScores(Tail(seq))

\* (variant: the quotient is truncated)
MathRoundDiv_Truncates(sum, count) == sum \div count

\* Math.round of the quotient sum / count of two non-negative integers
MathRoundDiv(sum, count) == (2 * sum + count) \div (2 * count)

\* (variant: without a valid score the overall score is 0)
ScoreOf_ZeroWhenEmpty(cats) ==
    LET categoriesWithValidScores == SelectSeq(cats, LAMBDA c : IsNumber(c.score))
    IN  IF Len(categoriesWithValidScores) > 0
        THEN [overallScore |-> Num(MathRoundDiv(SumScores(categoriesWithValidScores),
                                                Len(categoriesWithValidScores))),
              scoreError |-> Undef]
        ELSE [overallScore |-> Num(0),
              scoreError |-> S("Score calculation failed: No valid scores (1-10) were provided for any requested category.")]

\* lines 1050-1067
ScoreOf(cats) ==
    LET categoriesWithValidScores == SelectSeq(cats, LAMBDA c : IsNumber(c.score))
    IN  IF Len(categoriesWithValidScores) > 0
        THEN [overallScore |-> Num(MathRoundDiv(SumScores(categoriesWithValidScores),
                                                Len(categoriesWithValidScores))),
              scoreError |-> Undef]
        ELSE [overallScore |-> Null,
              scoreError |-> S("Score calculation failed: No valid scores (1-10) were provided for any requested category.")]

Pad2(n) == IF n < 10 THEN <<"0", ToString(n)>> ELSE <<ToString(n)>>

\* lines 1107-1114
formatDuration(totalSeconds) ==
    IF NumLess(totalSeconds, 0) \/ ~IsNumber(totalSeconds) \/ ~IsInteger(totalSeconds)
    THEN S("N/A")
    ELSE Str(Pad2(totalSeconds.v \div 60) \o <<":">> \o Pad2(totalSeconds.v % 60))

toISOString(time) == Str(<<"T", ToString(time)>>)

\* lines 1069-1083
FinalAnalysis(id, adminSettings, data, time) ==
    LET cats == finalCategories(categoriesToAnalyze(adminSettings), data.categories.v)
        score == ScoreOf(cats)
    IN  [id |-> Str(id),
         overallScore |-> score.overallScore,
         scoreError |-> score.scoreError,
         summary |-> IF Truthy(data.summary) THEN data.summary ELSE S("Summary not generated."),
         videoLength |-> formatDuration(data.videoDurationSeconds),
         analysisDate |-> toISOString(time),
         categories |-> Arr(cats),
         recommendations |-> IF IsArray(data.recommendations) THEN data.recommendations ELSE Arr(<<>>),
         adminSettings |-> adminSettings,
         productPageUrl |-> IF adminSettings.t = "object" THEN adminSettings.productPageUrl ELSE Undef,
         transcript |-> IF IsString(data.transcript) THEN data.transcript ELSE Undef]

\* The outcome of model.generateContent: [kind |-> "rejected"] (the call throws),
\* [kind |-> "notext", finishReason |-> r] or [kind |-> "text", text |-> segments].
\* lines 945-1083 and the catch of lines 1098-1104: everything analyzeVideo does
\* between the return of generateContent and the first file-system call.
AnalyzeResponse(id, adminSettings, response, time) ==
    LET wrap(msg) == Thrown(<<"Failed to analyze video using Gemini: ">> \o msg)
    IN  CASE response.kind = "rejected" -> wrap(<<"fetch failed">>)
          [] response.kind = "notext" ->
                IF response.finishReason = "SAFETY"
                THEN wrap(<<"Analysis blocked due to safety concerns. Please review the video content.">>)
                ELSE wrap(<<"No text content returned from Gemini model.">>)
          [] OTHER ->
                LET checked == ParseAndValidate(response.text)
                IN  IF checked.ok
                    THEN Value(FinalAnalysis(id, adminSettings, checked.val, time))
                    ELSE wrap(checked.msg)


\* ------------------------------------------------- lib/analysis-state.ts
Pending == [status |-> "pending", error |-> Undef, result |-> Undef]

\* Map.set and Map.delete on a map held as a function on its keys
MapSet(map, key, val) == (key :> val) @@ map
MapGet(map, key) == IF key \in DOMAIN map THEN map[key] ELSE Undef

\* (variant: the entry is never created)
initializeAnalysis_Skipped(states, id) == states

\* (variant: an existing entry keeps its payload, only the status is reset)
initializeAnalysis_KeepsPayload(states, id) ==
    IF id \in DOMAIN states
    THEN [states EXCEPT ![id].status = "pending"]
    ELSE MapSet(states, id, Pending)

initializeAnalysis(states, id) == MapSet(states, id, Pending)

\* (variant: the status is left at pending until the answer arrives)
startAnalysis_Deferred(states, id) == states

startAnalysis(states, id) ==
    IF id \in DOMAIN states
    THEN [states EXCEPT ![id].status = "processing"]
    ELSE states

completeAnalysis(states, id, result) ==
    MapSet(states, id, [status |-> "completed", error |-> Undef, result |-> result])

\* (variant: a failure is recorded on every job of the store)
failAnalysis_AllJobs(states, id, error) ==
    [k \in DOMAIN states \cup {id} |-> [status |-> "error", error |-> Str(error), result |-> Undef]]

failAnalysis(states, id, error) ==
    MapSet(states, id, [status |-> "error", error |-> Str(error), result |-> Undef])

getAnalysisState(states, id) == MapGet(states, id)

\* parseInt of an id segment; NaN is <<>>, a number n is <<n>>
DecimalValue == ("0" :> 0) @@ ("1800000" :> 1800000) @@ ("3600000" :> 3600000)
parseInt(segment) ==
    IF segment \in DOMAIN DecimalValue THEN <<DecimalValue[segment]>> ELSE <<>>

\* parseInt(id.split('_')[1]); split('_')[1] is undefined for an id without '_'
IdTimestamp(id) == IF Len(id) >= 2 THEN parseInt(id[2]) ELSE <<>>

CleanupAge == 3600000
CleanupPeriod == 3600000

\* (variant: the age test is missing)
Expired_All(states, time) == DOMAIN states

\* the ids the forEach of the periodic cleanup deletes at time time
Expired(states, time) ==
    {id \in DOMAIN states :
        IdTimestamp(id) # <<>> /\ time - IdTimestamp(id)[1] > CleanupAge}

CleanupStates(states, time) ==
    [id \in (DOMAIN states) \ Expired(states, time) |-> states[id]]

\* ------------------------------------------------------ the result store
\* A file of data/analysis is [complete |-> TRUE, json |-> object], the text
\* JSON.stringify wrote, or Truncated, a text that JSON.parse rejects (the file
\* after the truncating open and before the data is written, or garbled by
\* overlapping writers).
Truncated == [complete |-> FALSE]

\* JSON.stringify of an object: keys whose value is undefined are left out
JsonStringify(obj) == [k \in {f \in DOMAIN obj : obj[f] # Undef} |-> obj[k]]

FileOf(result) == [complete |-> TRUE, json |-> JsonStringify(result)]

Field(obj, key) == IF key \in DOMAIN obj THEN obj[key] ELSE Undef
Or(a, b) == IF Truthy(a) THEN a ELSE b

\* (variant: a missing file is reported like an unreadable one)
getVideoAnalysis_NullWhenMissing(store, id, time) ==
    IF id \notin DOMAIN store \/ ~store[id].complete
    THEN Null
    ELSE [id |-> Str(id)] @@ store[id].json

\* getVideoAnalysis(id, decision, explicitSettings); decision is not used
getVideoAnalysisWith(store, id, explicitSettings, time) ==
    IF id \notin DOMAIN store
    THEN [status |-> "processing"]
    ELSE IF ~store[id].complete
    THEN Null
    ELSE LET analysis == store[id].json
             settings == Or(explicitSettings, Field(analysis, "adminSettings"))
         IN  [id |-> Str(id),
              analysisDate |-> Or(Field(analysis, "analysisDate"), toISOString(time)),
              videoLength |-> Or(Field(analysis, "videoLength"), S("00:00")),
              adminSettings |-> settings,
              productPageUrl |-> IF settings.t = "object" THEN settings.productPageUrl ELSE Undef]
             @@ analysis

\* getVideoAnalysis(id) with the default decision and no explicitSettings
getVideoAnalysis(store, id, time) == getVideoAnalysisWith(store, id, Undef, time)

\* lib/server-url-params.ts: the settings the results page builds from its
\* query; searchParams is [categories, productUrl, productDesc], each Undef or
\* a string (categories as the sequence of names between its commas)
urlParamsToSettings(searchParams) ==
    [t |-> "object",
     selectedCategories |-> IF IsString(searchParams.categories) THEN searchParams.categories.v
                            ELSE <<"product_relevance", "visual_quality", "audio_quality",
                                   "content_engagement">>,
     productPageUrl |-> IF IsString(searchParams.productUrl) THEN searchParams.productUrl ELSE EmptyStr,
     productDescription |-> IF IsString(searchParams.productDesc) THEN searchParams.productDesc ELSE EmptyStr]

\* ---------------------------------------------------------------- inputs
IdA == <<"analysis", "0", "k3x">>
IdB == <<"upload7">>
Ids == {IdA, IdB}

VideoUri == S("gs://bucket/videos/1-review.mp4")
Settings(cats) ==
    [t |-> "object", productPageUrl |-> S("https://shop.example/p"),
     productDescription |-> EmptyStr, selectedCategories |-> cats]

Entry(name, score, feedback) ==
    [t |-> "object", name |-> name, score |-> score, feedback |-> feedback]
Data(summary, cats) ==
    [transcript |-> S("hello"), summary |-> summary, videoDurationSeconds |-> Num(75),
     recommendations |-> Arr(<<>>), categories |-> cats]
Prose == [seg |-> "prose"]
CloseBrace == [seg |-> "close"]
ObjectText(data) == [seg |-> "object", data |-> data]
TextResponse(text) == [kind |-> "text", text |-> text]

\* what the job model lets generateContent answer with: the call throws, a text
\* without an object, a well-formed answer
JobResponses ==
    { [kind |-> "rejected"],
      TextResponse(<<Prose>>),
      TextResponse(<<Prose, ObjectText(Data(S("ok"),
          Arr(<<Entry(S("visual_quality"), Num(7), S("fine"))>>)))>>) }

JobSettings == {Settings(<<"visual_quality", "audio_quality">>)}

\* ------------------------------------- api/upload/progress/route.ts, values
\* Map.delete on a map held as a function on its keys
MapDelete(map, key) == [k \in (DOMAIN map) \ {key} |-> map[k]]

Streams == 1..MaxStreams
UploadId == "3f2b-uuid"

\* a stream is one GET of the progress route: its controller (open or closed),
\* its interval timer and the values enqueued to the subscriber so far
NoStream == [pc |-> "none", id |-> "", interval |-> FALSE, received |-> <<>>]

\* the POST of api/upload and the write stream of uploadVideo under it
NoUpload == [pc |-> "idle", bytesWritten |-> 0]

\* the values that end a stream
Terminal == {100, -1}

\* ------------------------------------------------------------------ state
VARIABLES now, nextCleanup, analysisStates, files, tasks, pollers, reply,
          uploadProgress, streams, upload

\* the state of the upload-progress channel, and the state of the jobs
progressVars == <<uploadProgress, streams, upload>>
jobVars == <<now, nextCleanup, analysisStates, files, tasks, pollers>>

vars == <<now, nextCleanup, analysisStates, files, tasks, pollers, reply, progressVars>>

Tasks == 1..MaxTasks
Pollers == 1..MaxPollers

\* a task is the async function started by one accepted POST; its locals are the
\* id and settings of the request and, after the response, the validated
\* analysisData and the finalAnalysis
IdleTask == [pc |-> "idle", id |-> <<>>, adminSettings |-> Undef,
     analysisData |-> Undef, result |-> Undef]
DoneTask(id) == [pc |-> "done", id |-> id, adminSettings |-> Undef,
     analysisData |-> Undef, result |-> Undef]
IdlePoller == [pc |-> "idle", id |-> <<>>]

\* reply is the response sent by the handler that ran in the step just taken,
\* NoReply when that step was not a request
\* (route and req, the request it answers, are kept with it)
Json(route, http, body) == [route |-> route, req |-> Undef, http |-> http, body |-> body]
To(req, json) == [json EXCEPT !.req = req]
NoReply == Json("none", 0, Undef)

EmptyMap == [k \in {} |-> Undef]

Init ==
    /\ now = StartTime
    /\ nextCleanup = StartTime + CleanupPeriod
    /\ analysisStates = EmptyMap
    /\ files = EmptyMap
    /\ tasks = [t \in Tasks |-> IdleTask]
    /\ pollers = [p \in Pollers |-> IdlePoller]
    /\ reply = NoReply
    /\ uploadProgress = EmptyMap
    /\ streams = [s \in Streams |-> NoStream]
    /\ upload = NoUpload


\* ------------------------------------------- POST /api/analyze (the route)
FreeTasks == {t \in Tasks : tasks[t].pc = "idle"}

\* request.json() throws on a body that is not JSON: the outer catch answers 500
PostMalformed ==
    /\ reply' = Json("analyze", 500, [success |-> FALSE, error |-> S("Failed to initiate video analysis.")])
    /\ UNCHANGED <<now, nextCleanup, analysisStates, files, tasks, pollers, progressVars>>

\* lines 76-90: the two input checks
PostRejected(gcsUri, analysisId) ==
    /\ ~Truthy(gcsUri) \/ ~Truthy(analysisId)
    /\ reply' = To([gcsUri |-> gcsUri, analysisId |-> analysisId],
                    Json("analyze", 400, [success |-> FALSE,
                         error |-> IF ~Truthy(gcsUri) THEN S("No video URI provided")
                                   ELSE S("No analysis ID provided")]))
    /\ UNCHANGED <<now, nextCleanup, analysisStates, files, tasks, pollers, progressVars>>

\* (variant: only a missing analysisId is refused, an empty one is accepted)
PostAccepted_ChecksOnlyMissingId(gcsUri, adminSettings, analysisId) ==
    /\ Truthy(gcsUri) /\ analysisId # Undef
    /\ FreeTasks # {}
    /\ LET id == analysisId.v
           t == MinOf(FreeTasks)
       IN  /\ analysisStates' = startAnalysis(initializeAnalysis(analysisStates, id), id)
           /\ tasks' = [tasks EXCEPT ![t] = [pc |-> "generateContent", id |-> id,
                                             adminSettings |-> adminSettings,
                                             analysisData |-> Undef, result |-> Undef]]
    /\ reply' = To([gcsUri |-> gcsUri, analysisId |-> analysisId],
                   Json("analyze", 202, [success |-> TRUE,
                        message |-> S("Analysis started successfully."),
                        analysisId |-> analysisId]))
    /\ UNCHANGED <<now, nextCleanup, files, pollers, progressVars>>

\* lines 92-117: initializeAnalysis, then the async function runs synchronously
\* through startAnalysis up to the await of generateContent, then the 202
PostAccepted(gcsUri, adminSettings, analysisId) ==
    /\ Truthy(gcsUri) /\ Truthy(analysisId)
    /\ FreeTasks # {}
    /\ LET id == analysisId.v
           t == MinOf(FreeTasks)
       IN  /\ analysisStates' = startAnalysis(initializeAnalysis(analysisStates, id), id)
           /\ tasks' = [tasks EXCEPT ![t] = [pc |-> "generateContent", id |-> id,
                                             adminSettings |-> adminSettings,
                                             analysisData |-> Undef, result |-> Undef]]
    /\ reply' = To([gcsUri |-> gcsUri, analysisId |-> analysisId],
                    Json("analyze", 202, [success |-> TRUE,
                         message |-> S("Analysis started successfully."),
                         analysisId |-> analysisId]))
    /\ UNCHANGED <<now, nextCleanup, files, pollers, progressVars>>

\* ----------------------------------------- the background task of one POST
\* (variant: the catch logs the error and records nothing)
TaskFails_Unrecorded(t, msg) ==
    /\ UNCHANGED analysisStates
    /\ tasks' = [tasks EXCEPT ![t] = DoneTask(tasks[t].id)]

\* the catch of lines 102-106
TaskFails(t, msg) ==
    /\ analysisStates' = failAnalysis(analysisStates, tasks[t].id, msg)
    /\ tasks' = [tasks EXCEPT ![t] = DoneTask(tasks[t].id)]

\* generateContent settles; analyzeVideo runs on to fs.mkdir or throws
GenerateContentSettles(t, response) ==
    /\ tasks[t].pc = "generateContent"
    /\ LET outcome == AnalyzeResponse(tasks[t].id, tasks[t].adminSettings, response, now)
       IN  IF outcome.ok
           THEN /\ tasks' = [tasks EXCEPT ![t].pc = "mkdir", ![t].result = outcome.val,
                                           ![t].analysisData = ParseAndValidate(response.text).val,
                                           ![t].adminSettings = Undef]
                /\ UNCHANGED analysisStates
           ELSE TaskFails(t, outcome.msg)
    /\ reply' = NoReply
    /\ UNCHANGED <<now, nextCleanup, files, pollers, progressVars>>

\* line 1087 resolves and line 1089 issues the write
MkdirResolves(t) ==
    /\ tasks[t].pc = "mkdir"
    /\ tasks' = [tasks EXCEPT ![t].pc = "writeFile"]
    /\ reply' = NoReply
    /\ UNCHANGED <<now, nextCleanup, analysisStates, files, pollers, progressVars>>

MkdirRejects(t) ==
    /\ tasks[t].pc = "mkdir"
    /\ TaskFails(t, <<"Failed to analyze video using Gemini: ", "ENOSPC: no space left on device">>)
    /\ reply' = NoReply
    /\ UNCHANGED <<now, nextCleanup, files, pollers, progressVars>>

\* fs.writeFile opens the file with flag 'w', which truncates it
WriteFileOpens(t) ==
    /\ tasks[t].pc = "writeFile"
    /\ tasks' = [tasks EXCEPT ![t].pc = "writing"]
    /\ files' = MapSet(files, tasks[t].id, Truncated)
    /\ reply' = NoReply
    /\ UNCHANGED <<now, nextCleanup, analysisStates, pollers, progressVars>>

\* what the file holds once this writer has put its text at offset 0: its own
\* text, or a garbled one when another writer filled the file after this
\* writer's open truncated it
Written(t) ==
    IF files[tasks[t].id].complete /\ files[tasks[t].id] # FileOf(tasks[t].result)
    THEN {FileOf(tasks[t].result), Truncated}
    ELSE {FileOf(tasks[t].result)}

\* lines 1089-1096 and 100: the write resolves, analyzeVideo returns, completeAnalysis
WriteFileResolves(t) ==
    /\ tasks[t].pc = "writing"
    /\ \E content \in Written(t) : files' = MapSet(files, tasks[t].id, content)
    /\ analysisStates' = completeAnalysis(analysisStates, tasks[t].id, tasks[t].result)
    /\ tasks' = [tasks EXCEPT ![t] = DoneTask(tasks[t].id)]
    /\ reply' = NoReply
    /\ UNCHANGED <<now, nextCleanup, pollers, progressVars>>

\* (variant: the write error is swallowed and the result returned all the same)
WriteFileRejects_Swallowed(t) ==
    /\ tasks[t].pc \in {"writeFile", "writing"}
    /\ analysisStates' = completeAnalysis(analysisStates, tasks[t].id, tasks[t].result)
    /\ tasks' = [tasks EXCEPT ![t] = DoneTask(tasks[t].id)]
    /\ reply' = NoReply
    /\ UNCHANGED <<now, nextCleanup, files, pollers, progressVars>>

\* the write fails at the open (file untouched) or after it (file left as it is)
WriteFileRejects(t) ==
    /\ tasks[t].pc \in {"writeFile", "writing"}
    /\ TaskFails(t, <<"Failed to analyze video using Gemini: ", "ENOSPC: no space left on device">>)
    /\ reply' = NoReply
    /\ UNCHANGED <<now, nextCleanup, files, pollers, progressVars>>

\* ------------------------------------------------ GET /api/analysis-status
\* lines 17-36: the answer from the in-memory state, Undef when the code falls through
StateReply(state) ==
    IF state = Undef THEN Undef
    ELSE IF state.status = "error"
    THEN Json("status", 200, [status |-> "error", error |-> state.error])
    ELSE IF state.status = "completed" /\ state.result # Undef
    THEN Json("status", 200, [status |-> "completed", results |-> state.result])
    ELSE IF state.status = "processing" \/ state.status = "pending"
    THEN Json("status", 200, [status |-> "processing"])
    ELSE Undef

\* lines 41-55: the answer from what getVideoAnalysis returned
FileReply(results) ==
    IF results = Null
    THEN Json("status", 404, [status |-> "error", error |-> S("Analysis not found")])
    ELSE IF "status" \in DOMAIN results /\ results.status = "processing"
    THEN Json("status", 200, [status |-> "processing"])
    ELSE Json("status", 200, [status |-> "completed", results |-> results])

\* lines 7-14
GetWithoutId(p) ==
    /\ pollers[p].pc = "idle"
    /\ reply' = Json("status", 400, [error |-> S("No analysis ID provided")])
    /\ UNCHANGED <<now, nextCleanup, analysisStates, files, tasks, pollers, progressVars>>

\* lines 16-39: answered from memory, or suspended on the file read
GetStatus(p, id) ==
    /\ pollers[p].pc = "idle"
    /\ LET fromState == StateReply(getAnalysisState(analysisStates, id))
       IN  IF fromState = Undef
           THEN /\ pollers' = [pollers EXCEPT ![p] = [pc |-> "readFile", id |-> id]]
                /\ reply' = NoReply
           ELSE /\ reply' = To(Str(id), fromState)
                /\ UNCHANGED pollers
    /\ UNCHANGED <<now, nextCleanup, analysisStates, files, tasks, progressVars>>

\* lines 39-55: the file read settles
GetReadSettles(p) ==
    /\ pollers[p].pc = "readFile"
    /\ pollers' = [pollers EXCEPT ![p] = IdlePoller]
    /\ reply' = To(Str(pollers[p].id), FileReply(getVideoAnalysis(files, pollers[p].id, now)))
    /\ UNCHANGED <<now, nextCleanup, analysisStates, files, tasks, progressVars>>

\* ------------------------------------------------------ timers and the clock
\* lib/analysis-state.ts lines 40-49, run by setInterval every CleanupPeriod
Cleanup ==
    /\ now >= nextCleanup
    /\ analysisStates' = CleanupStates(analysisStates, now)
    /\ nextCleanup' = nextCleanup + CleanupPeriod
    /\ reply' = NoReply
    /\ UNCHANGED <<now, files, tasks, pollers, progressVars>>

\* Date.now() advances; a due timer callback runs before the clock moves again
Tick ==
    /\ now < MaxNow
    /\ now < nextCleanup
    /\ now' = now + TimeStep
    /\ reply' = NoReply
    /\ UNCHANGED <<nextCleanup, analysisStates, files, tasks, pollers, progressVars>>

PostInputs == {Undef, EmptyStr, VideoUri}
IdInputs == {Undef, EmptyStr} \cup {Str(id) : id \in Ids}

Next ==
    \/ PostMalformed
    \/ \E g \in PostInputs, a \in IdInputs : PostRejected(g, a)
    \/ \E g \in PostInputs, s \in JobSettings, a \in IdInputs : PostAccepted(g, s, a)
    \/ \E t \in Tasks, r \in JobResponses : GenerateContentSettles(t, r)
    \/ \E t \in Tasks : MkdirResolves(t)
    \/ \E t \in Tasks : MkdirRejects(t)
    \/ \E t \in Tasks : WriteFileOpens(t)
    \/ \E t \in Tasks : WriteFileResolves(t)
    \/ \E t \in Tasks : WriteFileRejects(t)
    \/ \E p \in Pollers : GetWithoutId(p)
    \/ \E p \in Pollers, id \in Ids : GetStatus(p, id)
    \/ \E p \in Pollers : GetReadSettles(p)
    \/ Cleanup
    \/ Tick

Spec == Init /\ [][Next]_vars


\* the fs promises of a running task settle (the thread pool always answers);
\* generateContent is a network call without a timeout and may never settle
FsSettles(t) ==
    \/ MkdirResolves(t)
    \/ MkdirRejects(t)
    \/ WriteFileOpens(t)
    \/ WriteFileResolves(t)
    \/ WriteFileRejects(t)

LiveSpec == Spec /\ \A t \in Tasks : WF_vars(FsSettles(t))

\* ------------------------------------------------------- shared vocabulary
StatusOf(states, id) == IF id \in DOMAIN states THEN states[id].status ELSE "absent"
IsTerminal(status) == status \in {"completed", "error"}

\* the accepted POSTs that carried id so far
SubmitCount(id) == Cardinality({t \in Tasks : tasks[t].pc # "idle" /\ tasks[t].id = id})

\* the answer a status query for id gets when it runs now, start to end
StatusAnswer(id) ==
    LET fromState == StateReply(getAnalysisState(analysisStates, id))
    IN  IF fromState # Undef THEN fromState
        ELSE FileReply(getVideoAnalysis(files, id, now))

\* position of a reported status in pending, processing, {completed | error}
Rank(status) == IF status = "pending" THEN 0 ELSE IF status = "processing" THEN 1 ELSE 2

\* a step in which the file read of poller p settles
ReadSettled(p) == pollers[p].pc = "readFile" /\ pollers'[p].pc = "idle"

\* a step in which task t ends
TaskEnded(t) == tasks[t].pc \notin {"idle", "done"} /\ tasks'[t].pc = "done"

\* -------------------------------------------------------------------- C1
\* C1: for a job id submitted once, the status reported to pollers never goes
\* backward: its rank in pending, processing, {completed|error} never drops and
\* a reported terminal status is never followed by a different status.
C1_StatusNeverGoesBackward ==
    [][\A id \in Ids :
          SubmitCount(id)' <= 1 =>
             /\ Rank(StatusAnswer(id).body.status') >= Rank(StatusAnswer(id).body.status)
             /\ IsTerminal(StatusAnswer(id).body.status)
                   => StatusAnswer(id).body.status' = StatusAnswer(id).body.status]_vars

\* -------------------------------------------------------------------- C2
\* C2: once generateContent has settled, the task ends: a task waiting on the
\* file system eventually is done, and every step that ends a task (on a thrown
\* call, a failed validation, a failed mkdir or write, or a finished write)
\* leaves the job's entry completed or error.
C2_TaskTerminatesJob ==
    /\ \A t \in Tasks : (tasks[t].pc \in {"mkdir", "writeFile", "writing"}) ~> (tasks[t].pc = "done")
    /\ [][\A t \in Tasks :
             /\ TaskEnded(t) => IsTerminal(StatusOf(analysisStates', tasks[t].id))
             /\ tasks[t].pc = "generateContent" /\ tasks'[t].pc # "generateContent"
                   => tasks'[t].pc \in {"mkdir", "done"}]_vars

C2_Witness ==
    \E t \in Tasks : tasks[t].pc = "done" /\ StatusOf(analysisStates, tasks[t].id) = "completed"

\* -------------------------------------------------------------------- C3
\* C3 as stated: once an id is completed or error, no step changes its entry.
C3_TerminalEntryNeverChanges ==
    [][\A id \in Ids :
          IsTerminal(StatusOf(analysisStates, id))
             => MapGet(analysisStates', id) = analysisStates[id]]_vars

\* C3 amended: a completed or error entry changes only when the same id is
\* submitted again (reset to processing), when the task of another Submit of
\* that id ends, or when the cleanup deletes it because its id is over an hour
\* old; status queries and the steps of other ids leave it alone.
C3_TerminalEntryChangesOnlyBy ==
    [][\A id \in Ids :
          IsTerminal(StatusOf(analysisStates, id)) /\ MapGet(analysisStates', id) # analysisStates[id]
             => \/ /\ reply'.route = "analyze" /\ reply'.http = 202
                   /\ reply'.req.analysisId = Str(id)
                   /\ StatusOf(analysisStates', id) = "processing"
                \/ /\ SubmitCount(id) >= 2
                   /\ \E t \in Tasks : tasks[t].id = id /\ TaskEnded(t)
                \/ /\ id \notin DOMAIN analysisStates'
                   /\ nextCleanup' # nextCleanup
                   /\ IdTimestamp(id) # <<>> /\ now - IdTimestamp(id)[1] > CleanupAge]_vars

C3_Witness ==
    \E id \in Ids, t, u \in Tasks :
        /\ tasks[t].id = id /\ tasks[t].pc = "done"
        /\ tasks[u].id = id /\ tasks[u].pc = "generateContent"
        /\ StatusOf(analysisStates, id) = "processing"

\* -------------------------------------------------------------------- C4
\* C4: a POST whose gcsUri or analysisId is empty or missing is answered 4xx
\* and changes neither the job state store, nor the tasks, nor the files.
C4_InvalidSubmitRejected ==
    [][(/\ reply'.route = "analyze" /\ reply'.req # Undef
        /\ (~Truthy(reply'.req.gcsUri) \/ ~Truthy(reply'.req.analysisId)))
          => /\ reply'.http \in 400..499
             /\ UNCHANGED <<analysisStates, tasks, files>>]_vars

C4_Witness ==
    /\ reply.route = "analyze" /\ reply.http = 400
    /\ \E t \in Tasks : tasks[t].pc = "generateContent"

\* -------------------------------------------------------------------- C5
\* C5: the step that answers 202 returns the request's id, leaves the id's entry
\* in the store and its task suspended on generateContent; and the step that
\* later ends the task records completed or error under that id.
C5_AcceptedWithoutWaiting ==
    [][/\ (reply'.route = "analyze" /\ reply'.http = 202)
            => /\ reply'.body.analysisId = reply'.req.analysisId
               /\ StatusOf(analysisStates', reply'.req.analysisId.v) \in {"pending", "processing"}
               /\ \E t \in Tasks : /\ tasks[t].pc = "idle"
                                   /\ tasks'[t].pc = "generateContent"
                                   /\ tasks'[t].id = reply'.req.analysisId.v
       /\ \A t \in Tasks :
             TaskEnded(t) =>
                LET entry == MapGet(analysisStates', tasks[t].id)
                IN  \/ /\ tasks[t].pc = "writing"
                       /\ entry.status = "completed"
                       /\ entry.result = tasks[t].result
                    \/ /\ entry.status = "error"
                       /\ Truthy(entry.error)]_vars

C5_Witness ==
    /\ reply.route = "analyze" /\ reply.http = 202
    /\ \E t \in Tasks : /\ tasks[t].pc = "generateContent"
                        /\ Str(tasks[t].id) = reply.body.analysisId
                        /\ StatusOf(analysisStates, tasks[t].id) = "processing"

\* -------------------------------------------------------------------- C6
\* C6: every entry of the job state store has an error iff its status is error
\* and a result iff its status is completed.
C6_PayloadMatchesStatus ==
    \A id \in DOMAIN analysisStates :
        /\ (analysisStates[id].error # Undef) <=> (analysisStates[id].status = "error")
        /\ (analysisStates[id].result # Undef) <=> (analysisStates[id].status = "completed")

C6_Witness ==
    \E id, other \in DOMAIN analysisStates :
        analysisStates[id].status = "error" /\ analysisStates[other].status = "completed"


\* -------------------------------------------------------------------- C7
\* C7: when the fallback read of a status query settles, a complete record is
\* answered completed with that record, and a missing or partially written
\* record is answered processing.
C7_FallbackNeverFailsOnPartial ==
    [][\A p \in Pollers :
          ReadSettled(p) =>
             LET id == pollers[p].id
             IN  IF id \in DOMAIN files /\ files[id].complete
                 THEN /\ reply'.body.status = "completed"
                      /\ reply'.body.results = getVideoAnalysis(files, id, now)
                 ELSE /\ reply'.http = 200
                      /\ reply'.body.status = "processing"]_vars

C9_CompletedImpliesPersisted ==
    /\ [](\A id \in DOMAIN analysisStates :
            analysisStates[id].status = "completed"
               => /\ id \in DOMAIN files
                  /\ SubmitCount(id) <= 1 => files[id] = FileOf(analysisStates[id].result))
    /\ [][\A t \in Tasks :
             TaskEnded(t) /\ StatusOf(analysisStates', tasks[t].id) = "completed"
                => /\ tasks[t].pc = "writing"
                   /\ files'[tasks[t].id] \in Written(t)]_vars

C9_Witness ==
    \E id \in DOMAIN analysisStates :
        /\ analysisStates[id].status = "completed"
        /\ id \in DOMAIN files
        /\ files[id] = FileOf(analysisStates[id].result)


\* ------------------------------------------- the pipeline on its own inputs
\* sequences over a set, up to a length
SeqsUpTo(set, n) == UNION {[1..k -> set] : k \in 0..n}

PipelineNames == {"visual_quality", "audio_quality"}
PipelineSettings ==
    {Undef} \cup {Settings(cats) : cats \in SeqsUpTo(PipelineNames, MaxRequested)}

ReturnedEntries ==
    {Null} \cup
    {Entry(name, score, feedback) :
        name \in {S("visual_quality"), S("audio_quality"), S("lighting")},
        score \in {Num(7), Num(8), Num(15), Half(7), S("7")},
        feedback \in {S("fine"), EmptyStr}}

\* answers that differ in the categories array
CategoryResponses ==
    {TextResponse(<<Prose, ObjectText(Data(S("ok"), Arr(cats)))>>) :
        cats \in SeqsUpTo(ReturnedEntries, MaxReturned)}

\* answers that differ in the other fields
FieldResponses ==
    {TextResponse(<<ObjectText(
        [transcript |-> transcript, summary |-> summary, videoDurationSeconds |-> duration,
         recommendations |-> recommendations, categories |-> categories])>>) :
        transcript \in {S("hello"), Undef},
        summary \in {S("ok"), EmptyStr, Undef, Num(3)},
        duration \in {Num(75), Num(0), Num(-5), Half(3), Undef},
        recommendations \in {Arr(<<S("more light")>>), Undef},
        categories \in {Arr(<<Entry(S("visual_quality"), Num(7), S("fine"))>>), Undef}}

\* answers that differ in the shape of the text, and calls without a text
ShapeResponses ==
    LET object == ObjectText(Data(S("ok"), Arr(<<Entry(S("audio_quality"), Num(9), S("clear"))>>)))
    IN  { [kind |-> "rejected"],
          [kind |-> "notext", finishReason |-> "SAFETY"],
          [kind |-> "notext", finishReason |-> "STOP"],
          TextResponse(<<Prose>>),
          TextResponse(<<Prose, CloseBrace>>),
          TextResponse(<<Prose, object, Prose>>),
          TextResponse(<<object, Prose, CloseBrace>>),
          TextResponse(<<object, object>>) }

PipelineResponses == CategoryResponses \cup FieldResponses \cup ShapeResponses

\* one accepted POST with any of the settings, waiting for generateContent
PipelineInit ==
    /\ now = StartTime
    /\ nextCleanup = StartTime + CleanupPeriod
    /\ analysisStates = startAnalysis(initializeAnalysis(EmptyMap, IdA), IdA)
    /\ files = EmptyMap
    /\ \E settings \in PipelineSettings :
          tasks = [t \in Tasks |->
                      IF t = 1
                      THEN [pc |-> "generateContent", id |-> IdA,
                            adminSettings |-> settings,
                            analysisData |-> Undef, result |-> Undef]
                      ELSE IdleTask]
    /\ pollers = [p \in Pollers |-> IdlePoller]
    /\ reply = NoReply
    /\ uploadProgress = EmptyMap
    /\ streams = [s \in Streams |-> NoStream]
    /\ upload = NoUpload

PipelineNext == \E t \in Tasks, r \in PipelineResponses : GenerateContentSettles(t, r)

PipelineSpec == PipelineInit /\ [][PipelineNext]_vars

\* the finalAnalysis objects the pipeline has produced
Produced == {tasks[t].result : t \in {u \in Tasks : tasks[u].pc = "mkdir"}}

\* ------------------------------------------------------------------- C10
\* C10: every result has one category per name sent to the model
\* (categoriesToAnalyze of the request's settings), in the same order and under
\* the same names, whatever the model returned.
C10_CategoriesAreTheRequestedList ==
    \A result \in Produced :
        LET requested == categoriesToAnalyze(result.adminSettings)
            output == result.categories.v
        IN  /\ Len(output) = Len(requested)
            /\ \A i \in 1..Len(requested) : output[i].name = requested[i]

\* a result where the model answered one requested name and left out another
C10_Witness ==
    \E result \in Produced :
        \E i, j \in 1..Len(result.categories.v) :
            /\ IsNumber(result.categories.v[i].score)
            /\ result.categories.v[j].feedback = S("Analysis for this category was not provided.")

\* ------------------------------------------------- vocabulary of C11 - C14
\* a returned entry that passes the checks of lines 993-997
ValidEntry(cat) ==
    /\ cat # Null
    /\ IsInteger(cat.score) /\ cat.score.v >= 1 /\ cat.score.v <= 10
    /\ IsString(cat.feedback) /\ cat.feedback # EmptyStr

\* the tasks that hold a merged result next to the analysisData it was made from
Merged == {t \in Tasks : tasks[t].pc = "mkdir"}
RequestedOf(t) == categoriesToAnalyze(tasks[t].result.adminSettings)

\* the entries of a parsed answer that carry a name
EntriesFor(data, name) ==
    {i \in 1..Len(data.categories.v) :
        data.categories.v[i] # Null /\ data.categories.v[i].name = S(name)}

\* a response (one well-formed object after some prose) to task 1 all of whose
\* entries are objects with a number as score, and in which the entry of a
\* requested name has an out-of-range score, a non-integer score or no feedback
HasDefectiveEntry(r) ==
    LET returned == r.text[Len(r.text)].data.categories.v
        requested == categoriesToAnalyze(tasks[1].adminSettings)
    IN  /\ \A i \in 1..Len(returned) : returned[i] # Null /\ IsNumber(returned[i].score)
        /\ \E i \in 1..Len(returned) :
              /\ \E k \in 1..Len(requested) : returned[i].name = S(requested[k])
              /\ \/ IsInteger(returned[i].score)
                       /\ (returned[i].score.v < 1 \/ returned[i].score.v > 10)
                 \/ ~IsInteger(returned[i].score)
                 \/ returned[i].feedback = EmptyStr

\* -------------------------------------------------------------------- C11
\* C11: a response in which a requested category's entry has an out-of-range
\* score, a non-integer score or no feedback does not fail the job: the task
\* goes on to save a result, and in it that category has an absent score.
C11_DefectiveEntryDoesNotFailJob ==
    [][\A r \in CategoryResponses :
          (GenerateContentSettles(1, r) /\ HasDefectiveEntry(r))
              => /\ StatusOf(analysisStates', IdA) # "error"
                 /\ tasks'[1].pc = "mkdir"]_vars

\* -------------------------------------------------------------------- C12
\* C12: in every result the pipeline produces, a requested category for which
\* the model returned a valid entry (integer score in 1..10, non-empty feedback;
\* the last one when the name is returned twice) keeps that entry's score and
\* feedback, and a requested category without any entry of that name has an
\* absent score and the feedback "Analysis for this category was not provided."
C12_ValidKeptMissingPlaceholder ==
    \A t \in Merged :
        \A k \in 1..Len(RequestedOf(t)) :
            LET out == tasks[t].result.categories.v[k]
                hits == EntriesFor(tasks[t].analysisData, RequestedOf(t)[k])
                last == tasks[t].analysisData.categories.v[MaxOf(hits)]
            IN  /\ (hits # {} /\ ValidEntry(last))
                    => out.score = last.score /\ out.feedback = last.feedback
                /\ hits = {}
                    => /\ out.score = Null
                       /\ out.feedback = S("Analysis for this category was not provided.")

\* the result for the requested list visual_quality, audio_quality when the
\* model returned visual_quality only, with score 7 and feedback "fine"
C12_Witness ==
    \E result \in Produced :
        /\ result.adminSettings # Undef
        /\ result.adminSettings.selectedCategories = <<"visual_quality", "audio_quality">>
        /\ result.categories.v[1] = [name |-> "visual_quality", score |-> Num(7), feedback |-> S("fine")]
        /\ result.categories.v[2].score = Null
        /\ result.categories.v[2].feedback = S("Analysis for this category was not provided.")

\* -------------------------------------------------------------------- C13
\* the output categories of a result that carry a valid score
ValidScored(result) ==
    {k \in 1..Len(result.categories.v) :
        LET score == result.categories.v[k].score
        IN  IsInteger(score) /\ score.v >= 1 /\ score.v <= 10}

RECURSIVE SumOver(_, _)
SumOver(result, ks) ==
    IF ks = {} THEN 0
    ELSE LET k == CHOOSE x \in ks : TRUE
         IN  result.categories.v[k].score.v + SumOver(result, ks \ {k})

\* C13: when at least one output category has a valid score, overallScore is
\* the integer m with m - 1/2 <= mean < m + 1/2, the mean taken over exactly
\* the categories with a valid score, and scoreError is absent.
C13_OverallScoreIsRoundedMean ==
    \A result \in Produced :
        LET count == Cardinality(ValidScored(result))
            sum == SumOver(result, ValidScored(result))
        IN  count > 0
              => /\ IsInteger(result.overallScore)
                 /\ 2 * result.overallScore.v * count - count <= 2 * sum
                 /\ 2 * sum < 2 * result.overallScore.v * count + count
                 /\ result.scoreError = Undef

\* a result over the default list where the model scored two categories 7 and
\* 8: the mean 7.5 over the two, the nine unscored ones left out, gives 8
C13_Witness ==
    \E result \in Produced :
        /\ Len(result.categories.v) = Len(defaultCategories)
        /\ Cardinality(ValidScored(result)) = 2
        /\ SumOver(result, ValidScored(result)) = 15
        /\ result.overallScore = Num(8)

\* ------------------------------ one job from the answer to the stored record
\* the results page, app/results/[id]/page.tsx: the settings of its query are
\* handed to getVideoAnalysis as explicitSettings
ResultsPage(id, searchParams) ==
    /\ reply' = To(Str(id), Json("results", 200,
                     getVideoAnalysisWith(files, id, urlParamsToSettings(searchParams), now)))
    /\ UNCHANGED <<now, nextCleanup, analysisStates, files, tasks, pollers, progressVars>>

\* a query without parameters, and the query that repeats the job's settings
PageQueries ==
    { [categories |-> Undef, productUrl |-> Undef, productDesc |-> Undef],
      [categories |-> Str(<<"visual_quality", "audio_quality">>),
       productUrl |-> S("https://shop.example/p"), productDesc |-> EmptyStr] }

StoreNext ==
    \/ \E t \in Tasks, r \in PipelineResponses : GenerateContentSettles(t, r)
    \/ \E t \in Tasks : MkdirResolves(t)
    \/ \E t \in Tasks : MkdirRejects(t)
    \/ \E t \in Tasks : WriteFileOpens(t)
    \/ \E t \in Tasks : WriteFileResolves(t)
    \/ \E t \in Tasks : WriteFileRejects(t)
    \/ \E q \in PageQueries : ResultsPage(IdA, q)
    \/ \E p \in Pollers : GetStatus(p, IdA)
    \/ \E p \in Pollers : GetReadSettles(p)
    \/ Cleanup
    \/ Tick

StoreSpec == PipelineInit /\ [][StoreNext]_vars

\* the results held by tasks and by completed entries of the job store
HeldResults ==
    Produced \cup {tasks[t].result : t \in {u \in Tasks : tasks[u].pc \in {"writeFile", "writing"}}}
             \cup {analysisStates[id].result :
                      id \in {i \in DOMAIN analysisStates : analysisStates[i].status = "completed"}}

\* -------------------------------------------------------------------- C14
\* C14: in every result, scoreError is present exactly when overallScore is
\* absent; a result none of whose categories has a valid score exists (nothing
\* was thrown), has no overallScore and has the fixed no-valid-scores message,
\* and a job whose result has no overallScore is completed like any other.
C14_ScoreErrorIffNoOverallScore ==
    \A result \in HeldResults :
        /\ (result.scoreError # Undef) <=> (result.overallScore = Null)
        /\ (result.overallScore = Null) <=> (ValidScored(result) = {})
        /\ ValidScored(result) = {}
              => result.scoreError = S("Score calculation failed: No valid scores (1-10) were provided for any requested category.")

\* a completed job whose result has no valid score
C14_Witness ==
    /\ StatusOf(analysisStates, IdA) = "completed"
    /\ ValidScored(analysisStates[IdA].result) = {}
    /\ analysisStates[IdA].result.overallScore = Null
    /\ analysisStates[IdA].result.scoreError # Undef

\* -------------------------------------------------------------------- C15
\* C15: every stored record that carries its request settings has as many
\* categories as the category list of those settings, with the names in the
\* order of that list.
C15_CategoriesMatchStoredList ==
    \A id \in DOMAIN files :
        (files[id].complete /\ "adminSettings" \in DOMAIN files[id].json)
            => LET stored == files[id].json.adminSettings.selectedCategories
                   output == files[id].json.categories.v
               IN  /\ Len(output) = Len(stored)
                   /\ \A k \in 1..Len(stored) : output[k].name = stored[k]

\* -------------------------------------------------------------------- C16
\* two objects equal in every field, an absent field counting as undefined
SameFields(a, b) == \A f \in DOMAIN a \cup DOMAIN b : Field(a, f) = Field(b, f)

\* the record a reply of the status fallback or of the results page carries
ReadBack ==
    IF reply.route = "results" THEN reply.body
    ELSE IF reply.route = "status" /\ reply.http = 200 /\ reply.body.status = "completed"
    THEN reply.body.results
    ELSE Null

\* C16: whenever the record of a job that was submitted once and has completed
\* is read back by id, through the status route or through the results page,
\* the value read equals the result that was written in every field.
C16_ReadBackEqualsWritten ==
    (reply.route \in {"status", "results"} /\ reply.req.t = "string")
        => LET id == reply.req.v
           IN  (StatusOf(analysisStates, id) = "completed" /\ SubmitCount(id) = 1)
                   => SameFields(ReadBack, analysisStates[id].result)

\* -------------------------------------------------------------------- C17
\* C17: once the record of a job id is completely written, no step changes it.
C17_StoredRecordNeverChanges ==
    [][\A id \in DOMAIN files : files[id].complete => files'[id] = files[id]]_vars

\* ---------------------------------------- api/upload/progress/route.ts, GET
\* line 65
updateProgress(progressMap, uploadId, progress) == MapSet(progressMap, uploadId, progress)

\* (variant: a terminal value is sent like any other, the stream stays open)
sendProgress_NeverCloses(stream, progressMap) ==
    LET progress == IF stream.id \in DOMAIN progressMap THEN progressMap[stream.id] ELSE 0
    IN  IF stream.pc # "open"
        THEN [stream |-> stream, map |-> progressMap]
        ELSE [stream |-> [stream EXCEPT !.received = Append(@, progress)], map |-> progressMap]

\* lines 25-35, for a stream and the tracking map: the stream and the map after
\* the call. controller.enqueue throws on a controller that is already closed,
\* which ends the call before anything else happens.
sendProgress(stream, progressMap) ==
    LET progress == IF stream.id \in DOMAIN progressMap THEN progressMap[stream.id] ELSE 0
    IN  IF stream.pc # "open"
        THEN [stream |-> stream, map |-> progressMap]
        ELSE IF progress \in Terminal
        THEN [stream |-> [stream EXCEPT !.received = Append(@, progress), !.pc = "closed"],
              map |-> MapDelete(progressMap, stream.id)]
        ELSE [stream |-> [stream EXCEPT !.received = Append(@, progress)], map |-> progressMap]

\* lines 8-12: a GET without uploadId
StreamWithoutId ==
    /\ reply' = Json("progress", 400, S("Upload ID is required"))
    /\ UNCHANGED <<jobVars, progressVars>>

\* lines 20-60: start(controller) sends the first value, sets the interval and
\* the abort listener, and the response with the stream is returned
OpenStream(s, uploadId) ==
    /\ streams[s].pc = "none"
    /\ LET sent == sendProgress([pc |-> "open", id |-> uploadId, interval |-> TRUE,
                                 received |-> <<>>], uploadProgress)
       IN  /\ streams' = [streams EXCEPT ![s] = sent.stream]
           /\ uploadProgress' = sent.map
    /\ reply' = NoReply
    /\ UNCHANGED <<jobVars, upload>>

\* lines 41-48: the interval callback. controller.close throws on a controller
\* that is already closed, after clearInterval has run.
IntervalFires(s) ==
    /\ streams[s].interval
    /\ \/ streams[s].id \notin DOMAIN uploadProgress
       \/ streams[s].pc # "open"
       \/ Len(streams[s].received) < MaxEvents
    /\ IF streams[s].id \notin DOMAIN uploadProgress
       THEN /\ streams' = [streams EXCEPT ![s].interval = FALSE,
                                          ![s].pc = IF @ = "open" THEN "closed" ELSE @]
            /\ UNCHANGED uploadProgress
       ELSE LET sent == sendProgress(streams[s], uploadProgress)
            IN  /\ streams' = [streams EXCEPT ![s] = sent.stream]
                /\ uploadProgress' = sent.map
    /\ reply' = NoReply
    /\ UNCHANGED <<jobVars, upload>>

\* lines 51-54: the client of an open stream disconnects
Abort(s) ==
    /\ streams[s].pc = "open"
    /\ streams' = [streams EXCEPT ![s].pc = "aborted", ![s].interval = FALSE]
    /\ uploadProgress' = MapDelete(uploadProgress, streams[s].id)
    /\ reply' = NoReply
    /\ UNCHANGED <<jobVars, upload>>

\* --------------------------- api/upload/route.ts and cloud-storage/upload.ts
\* upload.ts line 48: Math.round((bytesWritten / totalBytes) * 100)
Percent(bytesWritten, totalBytes) == (200 * bytesWritten + totalBytes) \div (2 * totalBytes)

\* route.ts lines 111-134: no file, a wrong type or a file that is too large
UploadRejected ==
    /\ reply' = Json("upload", 400, [success |-> FALSE])
    /\ UNCHANGED <<jobVars, progressVars>>

\* route.ts lines 136-139 and upload.ts lines 15-58: the id is drawn and the
\* write stream is started
UploadStarts ==
    /\ upload.pc = "idle"
    /\ upload' = [pc |-> "streaming", bytesWritten |-> 0]
    /\ reply' = NoReply
    /\ UNCHANGED <<jobVars, uploadProgress, streams>>

\* upload.ts lines 46-50 and route.ts line 143: a 'progress' event
ProgressEvent(bytes) ==
    /\ upload.pc = "streaming"
    /\ bytes >= upload.bytesWritten
    /\ upload' = [upload EXCEPT !.bytesWritten = bytes]
    /\ uploadProgress' = updateProgress(uploadProgress, UploadId, Percent(bytes, TotalBytes))
    /\ reply' = NoReply
    /\ UNCHANGED <<jobVars, streams>>

\* upload.ts lines 52-55 and route.ts lines 143-151: 'finish'
UploadFinishes ==
    /\ upload.pc = "streaming"
    /\ upload' = [upload EXCEPT !.pc = "finished"]
    /\ uploadProgress' = updateProgress(uploadProgress, UploadId, 100)
    /\ reply' = Json("upload", 200, [success |-> TRUE, uploadId |-> UploadId])
    /\ UNCHANGED <<jobVars, streams>>

\* upload.ts lines 40-44 and route.ts lines 140-141, 152-159: 'error'
UploadFails ==
    /\ upload.pc = "streaming"
    /\ upload' = [upload EXCEPT !.pc = "failed"]
    /\ uploadProgress' = updateProgress(uploadProgress, UploadId, -1)
    /\ reply' = Json("upload", 500, [success |-> FALSE])
    /\ UNCHANGED <<jobVars, streams>>

ProgressNext ==
    \/ StreamWithoutId
    \/ \E s \in Streams : OpenStream(s, UploadId)
    \/ \E s \in Streams : IntervalFires(s)
    \/ \E s \in Streams : Abort(s)
    \/ UploadRejected
    \/ UploadStarts
    \/ \E bytes \in 1..TotalBytes : ProgressEvent(bytes)
    \/ UploadFinishes
    \/ UploadFails

ProgressSpec == Init /\ [][ProgressNext]_vars

\* ------------------------------------------------- vocabulary of C18 - C20
Last(seq) == seq[Len(seq)]

\* the tracked value of an id has been removed: by the sendProgress that sent a
\* terminal value, or on the disconnect of a subscriber that had received a
\* tracked value (a value other than the 0 sent for an id without an entry)
Removed(uploadId) ==
    \E s \in Streams :
        /\ streams[s].id = uploadId
        /\ \/ streams[s].pc = "aborted" /\ \E i \in 1..Len(streams[s].received) : streams[s].received[i] # 0
           \/ streams[s].pc = "closed" /\ Last(streams[s].received) \in Terminal

\* -------------------------------------------------------------------- C18
\* C18: what one subscriber has received is non-decreasing up to a terminal
\* value, and a terminal value is the last value the subscriber receives.
C18_NonDecreasingUntilTerminal ==
    \A s \in Streams :
        \A i, j \in 1..Len(streams[s].received) :
            i < j => /\ streams[s].received[i] \notin Terminal
                     /\ streams[s].received[j] \in Terminal
                            \/ streams[s].received[i] <= streams[s].received[j]

\* a subscriber that received 0, 50 and 100 and was closed, with the value
\* put back into the map by the Update of the producer's 'finish' afterwards
C18_Witness ==
    \E s \in Streams :
        /\ streams[s].received = <<0, 50, 100>>
        /\ streams[s].pc = "closed"
        /\ upload.pc = "finished"
        /\ UploadId \in DOMAIN uploadProgress

\* -------------------------------------------------------------------- C19
\* C19: once the tracked value of an upload id has been removed, the tracking
\* map has no entry for that id, whatever Update calls follow.
C19_NoEntryAfterRemoval ==
    Removed(UploadId) => UploadId \notin DOMAIN uploadProgress

\* -------------------------------------------------------------------- C20
\* C20: a stream that the server has closed has emitted a terminal value.
C20_ClosedOnlyAfterTerminal ==
    \A s \in Streams :
        streams[s].pc = "closed" => Last(streams[s].received) \in Terminal

\* -------------------------------------------------------------------- C21
\* C21: a stream's first value is the tracked value at the time it was opened
\* (0 without one), and every tracked value reaches the subscribers of the
\* streams that are open while it is the tracked value: an Update never
\* replaces a value that an open stream with room left has not emitted.
C21_EveryUpdateEmitted ==
    [][\A s \in Streams :
          (/\ streams[s].pc = "open"
           /\ Len(streams[s].received) < MaxEvents
           /\ streams[s].id \in DOMAIN uploadProgress
           /\ streams[s].id \in DOMAIN uploadProgress'
           /\ uploadProgress'[streams[s].id] # uploadProgress[streams[s].id])
              => \E i \in 1..Len(streams[s].received) :
                    streams[s].received[i] = uploadProgress[streams[s].id]]_vars

\* the interval timers of the streams keep firing; whether a subscriber opens
\* a stream or disconnects, and what the upload does, is up to the clients
ProgressLiveSpec == ProgressSpec /\ \A s \in Streams : WF_vars(IntervalFires(s))

\* -------------------------------------------------------------------- C22
\* C22: a tracked value that is terminal is eventually removed from the map.
C22_TerminalRecordRemoved ==
    (UploadId \in DOMAIN uploadProgress /\ uploadProgress[UploadId] \in Terminal)
        ~> (UploadId \notin DOMAIN uploadProgress)

\* -------------------------------------------------------------------- C23
\* C23: after the subscriber of a stream disconnected before a terminal value,
\* the stream's interval is stopped and the map has no entry for its id.
C23_NoEntryAfterDisconnect ==
    \A s \in Streams :
        streams[s].pc = "aborted"
            => ~streams[s].interval /\ streams[s].id \notin DOMAIN uploadProgress

\* -------------------------------------------------------------------- C24
\* C24: a job whose task waits for generateContent eventually has a terminal
\* status, whether or not the call ever returns.
C24_PendingCallEndsInTerminal ==
    \A t \in Tasks :
        (tasks[t].pc = "generateContent")
            ~> (tasks[t].pc # "generateContent"
                  \/ IsTerminal(StatusOf(analysisStates, tasks[t].id)))

\* -------------------------------------------------------------------- C25
\* the text answers without an object that can be parsed, or whose object has
\* a summary that is missing or not a string
UnusableResponses ==
    {r \in PipelineResponses :
        /\ r.kind = "text"
        /\ \/ ~ExtractJson(r.text).ok
           \/ ~IsString(ExtractJson(r.text).val.summary)}

\* C25: when the answer to a job's task is such a text, the step that takes it
\* ends the task with the job in error, the error naming the defect, and
\* writes nothing; and a job in error with no record is never completed and
\* never gets a record by a later step.
C25_UnusableResponseEndsInError ==
    [][/\ (tasks[1].pc = "generateContent" /\ tasks'[1].pc # "generateContent")
          => \A r \in UnusableResponses :
                GenerateContentSettles(1, r)
                    => /\ tasks'[1].pc = "done"
                       /\ StatusOf(analysisStates', IdA) = "error"
                       /\ analysisStates'[IdA].error.v[1] = "Failed to analyze video using Gemini: "
                       /\ analysisStates'[IdA].error.v[2] = "Failed to process Gemini response: "
                       /\ analysisStates'[IdA].error.v[3] \in
                            { "No JSON object found in Gemini's response.",
                              "Unexpected token in JSON",
                              "Missing or invalid 'summary' in JSON." }
                       /\ files' = files
       /\ (StatusOf(analysisStates, IdA) = "error" /\ IdA \notin DOMAIN files)
          => /\ StatusOf(analysisStates', IdA) # "completed"
             /\ IdA \notin DOMAIN files']_vars

\* a job in error over a missing summary, without a record
C25_Witness ==
    /\ StatusOf(analysisStates, IdA) = "error"
    /\ Len(analysisStates[IdA].error.v) = 3
    /\ analysisStates[IdA].error.v[3] = "Missing or invalid 'summary' in JSON."
    /\ IdA \notin DOMAIN files
    /\ tasks[1].pc = "done"

\* -------------------------------------------------------------------- C26
\* the answers of one object with a usable summary and categories array, some
\* of them with a missing or invalid transcript, recommendations or duration
DescriptiveDefects ==
    {r \in FieldResponses :
        /\ r.text[1].data.summary = S("ok")
        /\ IsArray(r.text[1].data.categories)}

\* C26: whatever the transcript, the recommendations and the duration of such
\* an answer are, the task goes on to save a result.
C26_OptionalFieldsNeverFatal ==
    [][(tasks[1].pc = "generateContent" /\ tasks'[1].pc # "generateContent")
          => \A r \in DescriptiveDefects :
                GenerateContentSettles(1, r)
                    => /\ tasks'[1].pc = "mkdir"
                       /\ StatusOf(analysisStates', IdA) # "error"]_vars

\* -------------------------------------------------------------------- C27
\* C27: an entry leaves the job store only when its status is terminal and its
\* id is more than CleanupAge old.
C27_CleanupRemovesOnlyOldTerminal ==
    [][\A id \in DOMAIN analysisStates :
          id \notin DOMAIN analysisStates'
              => /\ IsTerminal(analysisStates[id].status)
                 /\ IdTimestamp(id) # <<>>
                 /\ now - IdTimestamp(id)[1] > CleanupAge]_vars

\* -------------------------------------------------------------------- C28
\* C28: for a job id submitted once and not submitted again, when the answer
\* to a status query is error or completed, the answer after any step is the
\* same status.
C28_TerminalAnswerStable ==
    [][\A id \in Ids :
          (SubmitCount(id) = 1 /\ SubmitCount(id)' = 1 /\ StatusAnswer(id).http = 200
             /\ IsTerminal(StatusAnswer(id).body.status))
              => /\ StatusAnswer(id)'.http = 200
                 /\ StatusAnswer(id)'.body.status = StatusAnswer(id).body.status]_vars

\* -------------------------------------------------------------------- C29
\* C29: no state between two steps has an entry in status pending, no answer
\* of the status route carries a status other than processing, completed or
\* error, and the route answers processing for a pending entry.
C29_PendingNeverObserved ==
    /\ \A id \in DOMAIN analysisStates : analysisStates[id].status # "pending"
    /\ (reply.route = "status" /\ reply.http = 200)
          => reply.body.status \in {"processing", "completed", "error"}
    /\ StateReply(Pending).body.status = "processing"

\* the state in which the 202 for a job is sent: a status query answers processing
C29_Witness ==
    /\ reply.route = "analyze" /\ reply.http = 202 /\ reply.body.analysisId = Str(IdA)
    /\ StatusOf(analysisStates, IdA) = "processing"
    /\ StatusAnswer(IdA).body.status = "processing"

\* -------------------------------------------------------------------- C30
\* C30: apart from the periodic cleanup, a step changes the store entry or the
\* record of a job id only if it is a step of a POST or task with that id.
C30_JobsIndependent ==
    [][\A b \in Ids :
          (/\ nextCleanup' = nextCleanup
           /\ \/ MapGet(analysisStates', b) # MapGet(analysisStates, b)
              \/ MapGet(files', b) # MapGet(files, b))
              => \E t \in Tasks : tasks'[t] # tasks[t] /\ tasks'[t].id = b]_vars

\* two jobs that ended differently, one completed with its record, one in error
C30_Witness ==
    /\ StatusOf(analysisStates, IdA) = "completed"
    /\ StatusOf(analysisStates, IdB) = "error"
    /\ IdA \in DOMAIN files /\ IdB \notin DOMAIN files

====
